---- MODULE Spec2Model ----
(***************************************************************************)
(* The Air Board dashboard (src/app.py): a Streamlit script that loads a   *)
(* table, reads seven sidebar widgets, narrows the table by six boolean    *)
(* mask passes and derives KPI scalars and two ranked aggregates.          *)
(*                                                                         *)
(* Streamlit runs the whole script again on every widget interaction, so   *)
(* each action below is one interaction followed by the complete rerun.    *)
(*                                                                         *)
(* Encoding.  A nullable cell is a sequence of length 0 (NaN / NaT) or 1.  *)
(* A timestamp is a number of ticks (TicksPerSecond ticks to the second)   *)
(* and a calendar day is a number of days.  An amount is a number of       *)
(* 1/UnitsPerDollar dollars, so that floor and ceil are not the identity.  *)
(* A frame (the DataFrame `filtered`) is the sequence of the index labels  *)
(* of df it still holds: boolean indexing keeps labels and their order.    *)
(***************************************************************************)
EXTENDS Integers, Sequences, FiniteSets, TLC

\* ------------------------------------------------------------------ bounds
MaxRows == 2            \* rows of a general dataset
MaxDay == 1             \* calendar days 0..MaxDay
TicksPerSecond == 2     \* timestamp resolution below one second
UnitsPerDollar == 2     \* amount resolution below one dollar
MaxSelected == 2        \* options selected in one multiselect
MaxMakes == 11          \* distinct makes of a ranking dataset

\* ------------------------------------------------------- program constants
SecondsPerDay == 86400  \* pd.Timedelta(days=1)
SliderStep == 100       \* step=100.0
TopN == 10              \* .head(10)

TicksPerDay == SecondsPerDay * TicksPerSecond

\* ------------------------------------------------------------------- cells
NaN == <<>>
notna(c) == c # NaN

\* Timestamp.date(): the calendar day of a timestamp.
date(t) == t \div TicksPerDay

\* pd.to_datetime(<date>): midnight of a calendar day.
to_datetime(d) == d * TicksPerDay

\* np.floor / np.ceil of an amount, to whole dollars.
floor(a) == (a \div UnitsPerDollar) * UnitsPerDollar
ceil(a) == -floor(-a)

\* Series.astype(str) on one cell: a missing value becomes the text "nan".
astype_str(c) == IF c = NaN THEN "nan" ELSE c[1]

\* Python's ordering of the text values the model uses (list.sort()).
TextOrder == <<"A", "B", "M01", "M02", "M03", "M04", "M05", "M06", "M07",
               "M08", "M09", "M10", "M11", "M12", "M13">>

Rank(s) == CHOOSE i \in DOMAIN TextOrder : TextOrder[i] = s

Range(s) == {s[i] : i \in DOMAIN s}

SetMin(S) == CHOOSE x \in S : \A y \in S : x <= y
SetMax(S) == CHOOSE x \in S : \A y \in S : x >= y

\* ---------------------------------------------------------------- datasets
TextCols == {"IncentiveProgram", "EquipmentType", "OldEquipmentMake", "NewEquipmentMake"}

\* A timestamp of day d: midnight, 23:59:59, or the last tick of the day.
Stamp(d, o) == d * TicksPerDay + o
DayOffsets == {0, TicksPerDay - TicksPerSecond, TicksPerDay - 1}
DateCells == {NaN} \cup {<<Stamp(d, o)>> : d \in 0..MaxDay, o \in DayOffsets}
TextCells == {NaN, <<"A">>, <<"B">>}
\* Half a dollar, and one slider step.
AmountCells == {NaN, <<1>>, <<SliderStep * UnitsPerDollar>>}

BaseRow == [ProjectCompleted |-> <<Stamp(0, 0)>>,
            IncentiveProgram |-> <<"A">>,
            EquipmentType |-> <<"A">>,
            OldEquipmentMake |-> <<"A">>,
            NewEquipmentMake |-> <<"A">>,
            IncentiveAmount |-> <<SliderStep * UnitsPerDollar>>]

RECURSIVE SeqsUpTo(_, _)
SeqsUpTo(S, n) ==
    IF n = 0 THEN {<<>>}
    ELSE LET shorter == SeqsUpTo(S, n - 1)
         IN shorter \cup {Append(s, x) : s \in {t \in shorter : Len(t) = n - 1}, x \in S}

\* load_data returns any table; the model draws it from five families of rows.
\* Rows that differ in equipment type and amount, and one without a date.
GeneralRows ==
    {[BaseRow EXCEPT !.EquipmentType = t, !.IncentiveAmount = a] :
        t \in TextCells, a \in AmountCells}
    \cup {[BaseRow EXCEPT !.ProjectCompleted = NaN]}
GeneralDatasets == SeqsUpTo(GeneralRows, MaxRows)

\* Rows that differ in the completion date.
DateRows == {[BaseRow EXCEPT !.ProjectCompleted = c] : c \in DateCells}
DateDatasets == SeqsUpTo(DateRows, MaxRows)

\* Rows that differ in one of the four text columns.
TextRows == {[BaseRow EXCEPT ![col] = c] : col \in TextCols, c \in TextCells}
TextDatasets == SeqsUpTo(TextRows, MaxRows)

\* Rows that each of the six passes can tell from the base row.
MixedRows ==
    {[BaseRow EXCEPT ![col] = <<"B">>] : col \in TextCols}
    \cup {BaseRow,
          [BaseRow EXCEPT !.ProjectCompleted = <<Stamp(1, 0)>>],
          [BaseRow EXCEPT !.IncentiveAmount = <<1>>]}
MixedDatasets == SeqsUpTo(MixedRows, MaxRows)

\* One row per make M01..M<k>, then at most one more row, whose make is
\* missing, the first or the last of those.
MakeRow(c) == [BaseRow EXCEPT !.NewEquipmentMake = c]
MakeName(i) == TextOrder[i + 2]
MakeDatasets ==
    {[i \in 1..k |-> MakeRow(<<MakeName(i)>>)] \o extra :
        k \in (MaxMakes - 1)..MaxMakes,
        extra \in {<<>>} \cup {<<MakeRow(c)>> :
                      c \in {NaN, <<MakeName(1)>>, <<MakeName(MaxMakes - 1)>>}}}

\* --------------------------------------------------------- sidebar widgets
NotNa(d, col) == {d[i][col][1] : i \in {j \in DOMAIN d : notna(d[j][col])}}

\* The date_input's default, or None (here <<>>) when the column holds no date.
DefaultDateRange(d) ==
    IF NotNa(d, "ProjectCompleted") # {}
    THEN <<date(SetMin(NotNa(d, "ProjectCompleted"))),
           date(SetMax(NotNa(d, "ProjectCompleted")))>>
    ELSE <<>>

\* What the date_input returns after an interaction: a range within
\* [min_value, max_value], or only its start while the end is not picked yet.
DateInputValues(d) ==
    LET dflt == DefaultDateRange(d)
        days == IF dflt = <<>> THEN {} ELSE dflt[1]..dflt[2]
    IN {<<s>> : s \in days}
       \cup {r \in {<<s, e>> : s \in days, e \in days} : r[1] <= r[2]}

\* Series.unique(): the values in the order of their first occurrence.
RECURSIVE unique(_)
unique(vals) ==
    IF vals = <<>> THEN <<>>
    ELSE <<Head(vals)>> \o unique(SelectSeq(Tail(vals), LAMBDA v : v # Head(vals)))

\* list.sort() on texts.
RECURSIVE sort(_)
sort(vals) ==
    IF vals = <<>> THEN <<>>
    ELSE LET i == CHOOSE k \in DOMAIN vals :
                      \A j \in DOMAIN vals : Rank(vals[k]) <= Rank(vals[j])
         IN <<vals[i]>> \o sort(SubSeq(vals, 1, i - 1) \o SubSeq(vals, i + 1, Len(vals)))

\* df[col].dropna().astype(str): the column's present cells as texts.
DropNaStr(d, col) ==
    LET present == SelectSeq([i \in DOMAIN d |-> d[i][col]], notna)
    IN [k \in DOMAIN present |-> astype_str(present[k])]

sorted_unique(d, col) == sort(unique(DropNaStr(d, col)))

min_amt(d) == IF NotNa(d, "IncentiveAmount") # {} THEN SetMin(NotNa(d, "IncentiveAmount")) ELSE 0
max_amt(d) == IF NotNa(d, "IncentiveAmount") # {} THEN SetMax(NotNa(d, "IncentiveAmount")) ELSE 0

DefaultAmtRange(d) == <<floor(min_amt(d)), ceil(max_amt(d))>>

\* The slider's stops: min_value + k * step, and max_value itself.
SliderStops(d) ==
    LET lo == floor(min_amt(d))
        hi == ceil(max_amt(d))
    IN {x \in lo..hi : (x - lo) % (SliderStep * UnitsPerDollar) = 0} \cup {hi}

SliderValues(d) == {<<a, b>> \in SliderStops(d) \X SliderStops(d) : a <= b}

\* ------------------------------------------------------------ apply filters
\* Series.between(lo, hi, inclusive="both") on one cell: False on a missing one.
between(c, lo, hi) == notna(c) /\ lo <= c[1] /\ c[1] <= hi

\* Series.isin(sel) after astype(str), on one cell.
isin(c, sel) == astype_str(c) \in sel

\* DateMask with the end of the range left at midnight of the end day.
DateMaskEndAtMidnight(d, dr, i) ==
    between(d[i].ProjectCompleted, to_datetime(dr[1]), to_datetime(dr[2]))

DateMask(d, dr, i) ==
    between(d[i].ProjectCompleted,
            to_datetime(dr[1]),
            to_datetime(dr[2]) + TicksPerDay - TicksPerSecond)

\* DatePass with the mask taken by position in the frame, not by label.
DatePassByPosition(d, frame, dr) ==
    IF Len(dr) = 2
    THEN LET at == SelectSeq([k \in 1..Len(frame) |-> k], LAMBDA k : DateMask(d, dr, k))
         IN [j \in 1..Len(at) |-> frame[at[j]]]
    ELSE frame

DatePass(d, frame, dr) ==
    IF Len(dr) = 2 THEN SelectSeq(frame, LAMBDA i : DateMask(d, dr, i)) ELSE frame

\* TextPass without its `if sel:` guard.
TextPassUnguarded(d, frame, col, sel) ==
    SelectSeq(frame, LAMBDA i : isin(d[i][col], sel))

TextPass(d, frame, col, sel) ==
    IF sel # {} THEN SelectSeq(frame, LAMBDA i : isin(d[i][col], sel)) ELSE frame

\* AmountPass with the mask taken by position in the frame, not by label.
AmountPassByPosition(d, frame, ar) ==
    IF Len(ar) # 0
    THEN LET at == SelectSeq([k \in 1..Len(frame) |-> k],
                             LAMBDA k : between(d[k].IncentiveAmount, ar[1], ar[2]))
         IN [j \in 1..Len(at) |-> frame[at[j]]]
    ELSE frame

AmountPass(d, frame, ar) ==
    IF Len(ar) # 0
    THEN SelectSeq(frame, LAMBDA i : between(d[i].IncentiveAmount, ar[1], ar[2]))
    ELSE frame

\* The widget values of one run.
Criteria(dr, ps, es, os, ns, ar) ==
    [date_range |-> dr, program_sel |-> ps, equip_type_sel |-> es,
     old_make_sel |-> os, new_make_sel |-> ns, amt_range |-> ar]

Passes == {"date", "program", "equip_type", "old_make", "new_make", "amount"}

ApplyPass(p, d, frame, c) ==
    CASE p = "date" -> DatePass(d, frame, c.date_range)
      [] p = "program" -> TextPass(d, frame, "IncentiveProgram", c.program_sel)
      [] p = "equip_type" -> TextPass(d, frame, "EquipmentType", c.equip_type_sel)
      [] p = "old_make" -> TextPass(d, frame, "OldEquipmentMake", c.old_make_sel)
      [] p = "new_make" -> TextPass(d, frame, "NewEquipmentMake", c.new_make_sel)
      [] p = "amount" -> AmountPass(d, frame, c.amt_range)

\* The script's order of the passes.
ApplyFilters(d, frame, c) ==
    ApplyPass("amount", d,
      ApplyPass("new_make", d,
        ApplyPass("old_make", d,
          ApplyPass("equip_type", d,
            ApplyPass("program", d,
              ApplyPass("date", d, frame, c), c), c), c), c), c)

\* df.copy(): every label of df.
Copy(d) == [i \in DOMAIN d |-> i]

\* --------------------------------------------------------------- aggregates
\* Series.sum() over a frame's amounts: missing values are skipped.
RECURSIVE AmountSum(_, _)
AmountSum(d, frame) ==
    IF frame = <<>> THEN 0
    ELSE (IF notna(d[Head(frame)].IncentiveAmount) THEN d[Head(frame)].IncentiveAmount[1] ELSE 0)
         + AmountSum(d, Tail(frame))

AmountCount(d, frame) == Len(SelectSeq(frame, LAMBDA i : notna(d[i].IncentiveAmount)))

\* Series.mean(): NaN (here <<>>) when no value is present, else the quotient
\* sum / count, kept as the pair <<sum, count>>.
Mean(d, frame) ==
    IF AmountCount(d, frame) = 0 THEN NaN
    ELSE <<AmountSum(d, frame), AmountCount(d, frame)>>

TotalIncentive(d, frame) == IF frame # <<>> THEN AmountSum(d, frame) ELSE 0
\* AvgIncentive without its `if not filtered.empty` guard.
AvgIncentiveUnguarded(d, frame) == Mean(d, frame)

AvgIncentive(d, frame) == IF frame # <<>> THEN Mean(d, frame) ELSE <<0, 1>>

\* DataFrame.sort_values(by, ascending=False) and the sort inside
\* value_counts(): numpy's default quicksort, which is not a stable sort.  Rows
\* with equal keys come out in an order that depends on the numpy build.  The
\* model carries two builds: one that keeps tied rows in the order they had
\* (what the insertion sort numpy falls back to on short arrays gives, after
\* pandas' double reversal for ascending=False), and one that reverses them.
TieRules == {"keep", "reverse"}

RECURSIVE SortPrefix(_, _, _, _)
SortPrefix(rows, by, rule, n) ==
    IF n = 0 THEN <<>>
    ELSE LET done == SortPrefix(rows, by, rule, n - 1)
             r == rows[n]
             ahead == Cardinality({j \in DOMAIN done :
                          \/ done[j][by] > r[by]
                          \/ rule = "keep" /\ done[j][by] = r[by]})
         IN SubSeq(done, 1, ahead) \o <<r>> \o SubSeq(done, ahead + 1, Len(done))

sort_values(rows, by, rule) == SortPrefix(rows, by, rule, Len(rows))

\* GroupBySum with .count() for .sum().
GroupByCount(d, frame) ==
    LET present == {d[i].EquipmentType[1] : i \in {j \in Range(frame) : notna(d[j].EquipmentType)}}
        keys == SelectSeq(TextOrder, LAMBDA s : s \in present)
    IN [k \in DOMAIN keys |->
          [EquipmentType |-> keys[k],
           IncentiveAmount |->
               AmountCount(d, SelectSeq(frame, LAMBDA i : d[i].EquipmentType = <<keys[k]>>))]]

\* groupby("Equipment Type", as_index=False)["Incentive Amount"].sum(): one row
\* per present key, keys ascending (sort=True), rows with a missing key dropped.
GroupBySum(d, frame) ==
    LET present == {d[i].EquipmentType[1] : i \in {j \in Range(frame) : notna(d[j].EquipmentType)}}
        keys == SelectSeq(TextOrder, LAMBDA s : s \in present)
    IN [k \in DOMAIN keys |->
          [EquipmentType |-> keys[k],
           IncentiveAmount |->
               AmountSum(d, SelectSeq(frame, LAMBDA i : d[i].EquipmentType = <<keys[k]>>))]]

\* ByType without .sort_values(...).
ByTypeUnsorted(d, frame, rule) == GroupBySum(d, frame)

ByType(d, frame, rule) == sort_values(GroupBySum(d, frame), "IncentiveAmount", rule)

\* The present values of a column in the order of their first occurrence.
RECURSIVE Encounter(_, _, _)
Encounter(d, frame, col) ==
    IF frame = <<>> THEN <<>>
    ELSE LET c == d[Head(frame)][col]
             rest == Encounter(d, SelectSeq(Tail(frame), LAMBDA i : d[i][col] # c), col)
         IN IF notna(c) THEN <<c[1]>> \o rest ELSE rest

\* Series.value_counts(): one row per present value with its number of rows,
\* hashed in first-occurrence order, then sorted by count descending.
value_counts(d, frame, rule) ==
    LET keys == Encounter(d, frame, "NewEquipmentMake")
        counted == [k \in DOMAIN keys |->
                      [NewEquipmentMake |-> keys[k],
                       Count |-> Len(SelectSeq(frame,
                                     LAMBDA i : d[i].NewEquipmentMake = <<keys[k]>>))]]
    IN sort_values(counted, "Count", rule)

\* DataFrame.head(n)
head(rows, n) == SubSeq(rows, 1, IF Len(rows) < n THEN Len(rows) ELSE n)

\* TopNew without .head(10).
TopNewUncapped(d, frame, rule) == value_counts(d, frame, rule)

TopNew(d, frame, rule) == head(value_counts(d, frame, rule), TopN)

\* ------------------------------------------------------------ state machine
VARIABLES
    tie,              \* the tie rule of the build's sort
    df,               \* the loaded table
    date_range, program_sel, equip_type_sel, old_make_sel, new_make_sel, amt_range,
    filtered,         \* the labels of df left after the six passes
    total_projects, total_incentive, avg_incentive,
    by_type, top_new  \* <<>> when the chart block is skipped

vars == <<tie, df, date_range, program_sel, equip_type_sel, old_make_sel, new_make_sel,
          amt_range, filtered, total_projects, total_incentive, avg_incentive,
          by_type, top_new>>

Current == Criteria(date_range, program_sel, equip_type_sel, old_make_sel,
                    new_make_sel, amt_range)

Default(d) == Criteria(DefaultDateRange(d), {}, {}, {}, {}, DefaultAmtRange(d))

\* The chart block: skipped (<<>>) when `filtered` is empty.
ByTypeChart(d, f, rule) == IF f # <<>> THEN ByType(d, f, rule) ELSE <<>>
TopNewChart(d, f, rule) == IF f # <<>> THEN TopNew(d, f, rule) ELSE <<>>

\* The first run of the script on a table of `tables`, under a tie rule of
\* `rules`: every widget at its default.
FirstRun(tables, rules) ==
    /\ tie \in rules
    /\ df \in tables
    /\ date_range = DefaultDateRange(df)
    /\ program_sel = {}
    /\ equip_type_sel = {}
    /\ old_make_sel = {}
    /\ new_make_sel = {}
    /\ amt_range = DefaultAmtRange(df)
    /\ filtered = ApplyFilters(df, Copy(df), Default(df))
    /\ total_projects = Len(filtered)
    /\ total_incentive = TotalIncentive(df, filtered)
    /\ avg_incentive = AvgIncentive(df, filtered)
    /\ by_type = ByTypeChart(df, filtered, tie)
    /\ top_new = TopNewChart(df, filtered, tie)

\* One rerun of the script with the widget values c.
Rerun(c) ==
    LET f == ApplyFilters(df, Copy(df), c)
    IN /\ \A w \in {"program_sel", "equip_type_sel", "old_make_sel", "new_make_sel"} :
             Cardinality(c[w]) <= MaxSelected
       /\ tie' = tie
       /\ df' = df
       /\ date_range' = c.date_range
       /\ program_sel' = c.program_sel
       /\ equip_type_sel' = c.equip_type_sel
       /\ old_make_sel' = c.old_make_sel
       /\ new_make_sel' = c.new_make_sel
       /\ amt_range' = c.amt_range
       /\ filtered' = f
       /\ total_projects' = Len(f)
       /\ total_incentive' = TotalIncentive(df, f)
       /\ avg_incentive' = AvgIncentive(df, f)
       /\ by_type' = ByTypeChart(df, f, tie)
       /\ top_new' = TopNewChart(df, f, tie)

\* A click on one option of a multiselect adds or removes it.
Toggle(sel, v) == IF v \in sel THEN sel \ {v} ELSE sel \cup {v}

SetDateRange ==
    \E v \in DateInputValues(df) : Rerun([Current EXCEPT !.date_range = v])

SetProgramSel ==
    \E v \in Range(sorted_unique(df, "IncentiveProgram")) :
        Rerun([Current EXCEPT !.program_sel = Toggle(program_sel, v)])

SetEquipTypeSel ==
    \E v \in Range(sorted_unique(df, "EquipmentType")) :
        Rerun([Current EXCEPT !.equip_type_sel = Toggle(equip_type_sel, v)])

SetOldMakeSel ==
    \E v \in Range(sorted_unique(df, "OldEquipmentMake")) :
        Rerun([Current EXCEPT !.old_make_sel = Toggle(old_make_sel, v)])

SetNewMakeSel ==
    \E v \in Range(sorted_unique(df, "NewEquipmentMake")) :
        Rerun([Current EXCEPT !.new_make_sel = Toggle(new_make_sel, v)])

SetAmtRange ==
    \E v \in SliderValues(df) : Rerun([Current EXCEPT !.amt_range = v])

Next ==
    \/ SetDateRange
    \/ SetProgramSel
    \/ SetEquipTypeSel
    \/ SetOldMakeSel
    \/ SetNewMakeSel
    \/ SetAmtRange

\* Tables whose rows differ in equipment type and amount, under both tie rules.
Init == FirstRun(GeneralDatasets, TieRules)
Spec == Init /\ [][Next]_vars

\* The specifications of the filter passes, which do not read the chart tables,
\* carry one tie rule.
InitDates == FirstRun(DateDatasets, {"keep"})
SpecDates == InitDates /\ [][Next]_vars

InitTexts == FirstRun(TextDatasets, {"keep"})
SpecTexts == InitTexts /\ [][Next]_vars

InitMixed == FirstRun(MixedDatasets, {"keep"})
SpecMixed == InitMixed /\ [][Next]_vars

\* Tables with more than TopN makes, under both tie rules.
InitMakes == FirstRun(MakeDatasets, TieRules)
SpecMakes == InitMakes /\ [][Next]_vars

\* ==================================================================== claims
\* The labels `filtered` holds.
Kept == Range(filtered)

\* The passes of `these`, in the script's order, on the whole table.
RECURSIVE Only(_, _, _)
Only(these, todo, frame) ==
    IF todo = <<>> THEN frame
    ELSE Only(these, Tail(todo),
              IF Head(todo) \in these THEN ApplyPass(Head(todo), df, frame, Current)
              ELSE frame)
ScriptOrder == <<"date", "program", "equip_type", "old_make", "new_make", "amount">>
KeptBy(these) == Range(Only(these, ScriptOrder, Copy(df)))

\* The sum of a function's values.
RECURSIVE Sum(_)
Sum(f) ==
    IF DOMAIN f = {} THEN 0
    ELSE LET x == CHOOSE y \in DOMAIN f : TRUE
         IN f[x] + Sum([y \in DOMAIN f \ {x} |-> f[y]])

Amount(i) == df[i].IncentiveAmount[1]
Amounts(S) == [i \in S |-> Amount(i)]
WithAmount(S) == {i \in S : df[i].IncentiveAmount # <<>>}

\* C1: with every widget at its default, the filtered view is the whole table:
\* the same records in the same order, records without a date or an amount
\* included.
C1_DefaultBoundsIdentity ==
    Current = Default(df) => filtered = Copy(df)

\* C2: of the records that reach the amount pass, one with an amount is kept iff
\* min <= amount <= max, and one without an amount is dropped only when the
\* selected range differs from the default range.
C2_AmountRangePass ==
    \A i \in KeptBy(Passes \ {"amount"}) :
        IF df[i].IncentiveAmount # <<>>
        THEN i \in Kept <=> amt_range[1] <= Amount(i) /\ Amount(i) <= amt_range[2]
        ELSE amt_range = DefaultAmtRange(df) => i \in Kept

InDateRange(i) ==
    /\ df[i].ProjectCompleted # <<>>
    /\ date_range[1] * SecondsPerDay * TicksPerSecond <= df[i].ProjectCompleted[1]
    /\ df[i].ProjectCompleted[1]
           <= (date_range[2] * SecondsPerDay + SecondsPerDay - 1) * TicksPerSecond
\* C3: with a two-element date range (startDay, endDay), a record that the other
\* passes keep is kept iff it has a completion date and
\* startDay 00:00:00 <= date <= endDay 23:59:59.
C3_DateRangePass ==
    Len(date_range) = 2 =>
        \A i \in DOMAIN df :
            i \in Kept <=> InDateRange(i) /\ i \in KeptBy(Passes \ {"date"})
\* C3, reached: a record at 23:59:59 of the end day is kept and one at 00:00:00 of
\* the next day is dropped.
C3_Witness ==
    /\ Len(date_range) = 2
    /\ \E i \in Kept :
          df[i].ProjectCompleted
              = <<(date_range[2] * SecondsPerDay + SecondsPerDay - 1) * TicksPerSecond>>
    /\ \E i \in DOMAIN df \ Kept :
          df[i].ProjectCompleted = <<(date_range[2] + 1) * SecondsPerDay * TicksPerSecond>>

Selection(col) ==
    CASE col = "IncentiveProgram" -> program_sel
      [] col = "EquipmentType" -> equip_type_sel
      [] col = "OldEquipmentMake" -> old_make_sel
      [] col = "NewEquipmentMake" -> new_make_sel
Matches(i, col) ==
    \/ Selection(col) = {}
    \/ df[i][col] # <<>> /\ df[i][col][1] \in Selection(col)
Present(col) == {df[i][col][1] : i \in {j \in DOMAIN df : df[j][col] # <<>>}}
Ascending(texts) ==
    \A j, k \in DOMAIN texts : j < k => Rank(texts[j]) < Rank(texts[k])
\* C4: an empty selection of a text field drops no record; a non-empty one keeps
\* exactly the records whose value is present and in the selection; a record is
\* kept only if every field lets it pass; and every selection is made of the
\* column's present values, which are offered sorted and without repeats.
C4_CategoricalFilters ==
    /\ \A i \in DOMAIN df :
          i \in Kept <=> /\ \A col \in TextCols : Matches(i, col)
                         /\ i \in KeptBy({"date", "amount"})
    /\ \A col \in TextCols :
          /\ Selection(col) \subseteq Present(col)
          /\ Range(sorted_unique(df, col)) = Present(col)
          /\ Ascending(sorted_unique(df, col))
\* C4, reached: two fields are selected; a record without a program and a record
\* of another equipment type (whose program is selected) are both dropped.
C4_Witness ==
    /\ program_sel # {}
    /\ equip_type_sel # {}
    /\ old_make_sel = {}
    /\ \E i \in DOMAIN df \ Kept : df[i].IncentiveProgram = <<>>
    /\ \E i \in DOMAIN df \ Kept :
          df[i].EquipmentType = <<"B">> /\ df[i].IncentiveProgram # <<>>

RECURSIVE AnyOrder(_)
AnyOrder(n) ==
    IF n = 0 THEN {<<{}, Copy(df)>>}
    ELSE UNION {{<<sv[1] \cup {p}, ApplyPass(p, df, sv[2], Current)>> :
                    p \in Passes \ sv[1]} : sv \in AnyOrder(n - 1)}
\* C5: the six passes applied in any order leave what the script's order leaves.
C5_FilterCommutativity ==
    \A sv \in AnyOrder(Cardinality(Passes)) : sv[2] = filtered
\* C5, reached: two passes each drop a different record, and nothing is left.
C5_Witness ==
    /\ Len(df) >= 2
    /\ filtered = <<>>
    /\ \E p, q \in Passes :
          /\ ApplyPass(p, df, Copy(df), Current) = <<1>>
          /\ ApplyPass(q, df, Copy(df), Current) = <<2>>

\* C6: the passes applied to the filtered view return it unchanged.
C6_FilterIdempotence ==
    ApplyFilters(df, filtered, Current) = filtered
\* C6, reached: the view lost its first record to a two-element date range or
\* another pass, so its labels are no longer its positions.
C6_Witness ==
    /\ filtered # <<>>
    /\ filtered[1] # 1
    /\ Len(date_range) = 2

\* C7: total_projects is the number of filtered records, total_incentive the sum
\* of their amounts, avg_incentive their mean and never NaN (0 when there is no
\* amount); an empty view gives 0, 0, 0 and no chart table.
C7_KpiScalars ==
    /\ total_projects = Cardinality(Kept)
    /\ total_incentive = Sum(Amounts(WithAmount(Kept)))
    /\ avg_incentive # <<>>
    /\ IF WithAmount(Kept) = {}
       THEN avg_incentive[1] = 0
       ELSE avg_incentive[1] * Cardinality(WithAmount(Kept))
                = Sum(Amounts(WithAmount(Kept))) * avg_incentive[2]
    /\ filtered = <<>> =>
          /\ total_projects = 0
          /\ total_incentive = 0
          /\ by_type = <<>>
          /\ top_new = <<>>
\* C7, reached: two records with amounts 0.5 and 100 after a selection was made;
\* the mean is 100.5 / 2.
C7_Witness ==
    /\ Len(filtered) = 2
    /\ avg_incentive = <<1 + SliderStep * UnitsPerDollar, 2>>
    /\ equip_type_sel # {}

\* C8: for a non-empty view in which every record has an equipment type, the
\* sums of by_type add up to total_incentive.
C8_TotalsConsistency ==
    (filtered # <<>> /\ \A i \in Kept : df[i].EquipmentType # <<>>) =>
        Sum([k \in DOMAIN by_type |-> by_type[k].IncentiveAmount]) = total_incentive
\* C8, reached: two equipment types with different positive sums.
C8_Witness ==
    /\ Len(by_type) = 2
    /\ by_type[1].IncentiveAmount # by_type[2].IncentiveAmount
    /\ by_type[2].IncentiveAmount > 0
    /\ \A i \in Kept : df[i].EquipmentType # <<>>

TypesKept == {df[i].EquipmentType[1] : i \in {j \in Kept : df[j].EquipmentType # <<>>}}
AmountOrZero(i) == IF df[i].IncentiveAmount # <<>> THEN Amount(i) ELSE 0
OnePerType ==
    /\ {by_type[k].EquipmentType : k \in DOMAIN by_type} = TypesKept
    /\ Len(by_type) = Cardinality(TypesKept)
    /\ \A k \in DOMAIN by_type :
          by_type[k].IncentiveAmount
              = Sum([i \in {j \in Kept : df[j].EquipmentType = <<by_type[k].EquipmentType>>}
                        |-> AmountOrZero(i)])
    /\ \A j, k \in DOMAIN by_type :
          j < k => by_type[j].IncentiveAmount >= by_type[k].IncentiveAmount
\* C9 (as amended): by_type has one entry per present equipment type of the
\* view, carrying the sum of that type's amounts, ordered by sum descending.
C9_ByTypeOrdering ==
    filtered # <<>> => OnePerType
\* C9, reached: type B has the larger sum and comes before type A.
C9_Witness ==
    /\ Len(by_type) = 2
    /\ by_type[1].IncentiveAmount > by_type[2].IncentiveAmount
    /\ by_type[1].EquipmentType = "B"

FirstAt(t) == CHOOSE p \in DOMAIN filtered :
                  /\ df[filtered[p]].EquipmentType = <<t>>
                  /\ \A q \in 1..(p - 1) : df[filtered[q]].EquipmentType # <<t>>
\* C9 (as claimed): the same, and two types with equal sums appear in the order
\* in which they first occur in the view.
C9_TiesInEncounterOrder ==
    filtered # <<>> =>
        /\ OnePerType
        /\ \A j, k \in DOMAIN by_type :
              (j < k /\ by_type[j].IncentiveAmount = by_type[k].IncentiveAmount)
                  => FirstAt(by_type[j].EquipmentType) < FirstAt(by_type[k].EquipmentType)

MakesKept == {df[i].NewEquipmentMake[1] : i \in {j \in Kept : df[j].NewEquipmentMake # <<>>}}
Records(m) == Cardinality({i \in Kept : df[i].NewEquipmentMake = <<m>>})
MakesShown == {top_new[k].NewEquipmentMake : k \in DOMAIN top_new}
\* C10: top_new has min(10, number of present makes) entries, none for a missing
\* make, each with its make's number of records, ordered by count descending,
\* and no make left out has more records than a make that is in.
C10_TopTenCap ==
    filtered # <<>> =>
        /\ Len(top_new) <= 10
        /\ Len(top_new) = IF Cardinality(MakesKept) < 10 THEN Cardinality(MakesKept) ELSE 10
        /\ MakesShown \subseteq MakesKept
        /\ Cardinality(MakesShown) = Len(top_new)
        /\ \A k \in DOMAIN top_new : top_new[k].Count = Records(top_new[k].NewEquipmentMake)
        /\ \A j, k \in DOMAIN top_new : j < k => top_new[j].Count >= top_new[k].Count
        /\ \A out \in MakesKept \ MakesShown : \A in \in MakesShown : Records(out) <= Records(in)
\* C10, reached: more than 10 makes are present, 10 are shown, and the first one
\* shown has two records and is not the make met first.
C10_Witness ==
    /\ Cardinality(MakesKept) > 10
    /\ Len(top_new) = 10
    /\ top_new[1].Count = 2
    /\ top_new[1].NewEquipmentMake # df[1].NewEquipmentMake[1]

====
